---- MODULE Spec2Model ----
(***************************************************************************)
(* Model of the dependency-ordering core of the code analyzer:             *)
(*   analyzer/parser.py   JavaParser.parse                                 *)
(*   analyzer/graph.py    DependencyGraph.build_graph,                     *)
(*                        DependencyGraph.get_topological_sort             *)
(*   analyzer/reader.py   CodebaseReader.get_files                         *)
(*                                                                         *)
(* A Python str is a sequence of one-character strings, a dict is a        *)
(* sequence of entries in insertion order, a set is a set together with    *)
(* the order in which one loop happens to iterate it.                      *)
(***************************************************************************)
EXTENDS Naturals, Sequences, FiniteSets

(***************************************************************************)
(* Bounds of the model.                                                    *)
(***************************************************************************)
\* the largest number of entries of one input mapping (or directory walk),
\* and of all mappings passed to one DependencyGraph together
MaxFiles == 3
\* the largest number of build_graph calls on one DependencyGraph
MaxBuilds == 2
\* the largest number of runs of main that reach RAGEngine.index_codebase
MaxRuns == 3

(***************************************************************************)
(* Python str operations.                                                  *)
(***************************************************************************)
Range(s) == {s[i] : i \in 1..Len(s)}

\* ord(c) for the characters the model's strings are made of
Code(c) ==
  CASE c = "." -> 46  [] c = "/" -> 47
    [] c = "A" -> 65  [] c = "B" -> 66  [] c = "C" -> 67  [] c = "D" -> 68
    [] c = "L" -> 76  [] c = "R" -> 82
    [] c = "a" -> 97  [] c = "b" -> 98  [] c = "c" -> 99  [] c = "d" -> 100
    [] c = "e" -> 101 [] c = "f" -> 102 [] c = "g" -> 103 [] c = "i" -> 105
    [] c = "j" -> 106 [] c = "k" -> 107 [] c = "l" -> 108 [] c = "m" -> 109
    [] c = "n" -> 110 [] c = "o" -> 111 [] c = "p" -> 112 [] c = "r" -> 114
    [] c = "s" -> 115 [] c = "t" -> 116 [] c = "u" -> 117 [] c = "v" -> 118
    [] c = "x" -> 120 [] c = "y" -> 121
    [] OTHER -> 0

\* s[i:] (1-based, i may be Len(s)+1)
From(s, i) == SubSeq(s, i, Len(s))

\* s.startswith(pre)
StartsWith(s, pre) ==
  /\ Len(pre) <= Len(s)
  /\ SubSeq(s, 1, Len(pre)) = pre

\* s.endswith(suf)
EndsWith(s, suf) ==
  /\ Len(suf) <= Len(s)
  /\ SubSeq(s, Len(s) - Len(suf) + 1, Len(s)) = suf

\* pat in s
Contains(s, pat) ==
  \E i \in 1..(Len(s) + 1) : StartsWith(From(s, i), pat)

\* s.replace(old, ""): every non-overlapping occurrence, left to right
RECURSIVE Remove(_, _)
Remove(s, old) ==
  IF s = <<>> THEN <<>>
  ELSE IF StartsWith(s, old) THEN Remove(From(s, Len(old) + 1), old)
  ELSE <<Head(s)>> \o Remove(Tail(s), old)

\* s.split("/")[-1]
RECURSIVE LastSegment(_)
LastSegment(s) ==
  IF \E i \in 1..Len(s) : s[i] = "/"
    THEN LastSegment(Tail(s))
    ELSE s

\* a < b for str: code point by code point, a proper prefix is smaller
RECURSIVE StrLess(_, _)
StrLess(a, b) ==
  IF b = <<>> THEN FALSE
  ELSE IF a = <<>> THEN TRUE
  ELSE IF Code(Head(a)) # Code(Head(b)) THEN Code(Head(a)) < Code(Head(b))
  ELSE StrLess(Tail(a), Tail(b))

\* insertion of x into an ascending list
RECURSIVE InsertSorted(_, _)
InsertSorted(x, s) ==
  IF s = <<>> THEN <<x>>
  ELSE IF StrLess(x, Head(s)) THEN <<x>> \o s
  ELSE <<Head(s)>> \o InsertSorted(x, Tail(s))

\* sorted(list of str)
RECURSIVE Sorted(_)
Sorted(s) ==
  IF s = <<>> THEN <<>> ELSE InsertSorted(Head(s), Sorted(Tail(s)))

\* list(reversed(s))
Reversed(s) == [i \in 1..Len(s) |-> s[Len(s) + 1 - i]]

\* the literal ".java"
DotJava == <<".", "j", "a", "v", "a">>

(***************************************************************************)
(* File text.  A text is the sequence of its statements: a package         *)
(* statement, an import statement (both carry the dotted name they name),  *)
(* or other text that is no Java at all.                                   *)
(***************************************************************************)
PackageLine(n) == [kind |-> "package", name |-> n]
ImportLine(n) == [kind |-> "import", name |-> n]
OtherLine == [kind |-> "other", name |-> <<>>]

\* Python's None (no str of the model is this sequence)
None == <<"None">>

\* javalang.parse.parse(content) succeeds: a compilation unit is an optional
\* package statement, first, followed by import statements
GrammarOk(content) ==
  \A i \in 1..Len(content) :
    /\ content[i].kind # "other"
    /\ content[i].kind = "package" => i = 1

\* tree.package.name if tree.package else ""
TreePackage(content) ==
  IF content # <<>> /\ content[1].kind = "package" THEN content[1].name ELSE <<>>

\* {imp.path for imp in tree.imports}
TreeImports(content) ==
  {content[i].name : i \in {j \in 1..Len(content) : content[j].kind = "import"}}

\* JavaParser.parse: (None, set()) without javalang or when the parse raises
parse(javalang_ok, content) ==
  IF ~javalang_ok THEN [pkg |-> None, imports |-> {}]
  ELSE IF GrammarOk(content)
    THEN [pkg |-> TreePackage(content), imports |-> TreeImports(content)]
    ELSE [pkg |-> None, imports |-> {}]

\* re.findall(r'package\s+([\w\.]+);', content)
RECURSIVE RegexPackages(_)
RegexPackages(content) ==
  IF content = <<>> THEN <<>>
  ELSE IF Head(content).kind = "package"
    THEN <<Head(content).name>> \o RegexPackages(Tail(content))
    ELSE RegexPackages(Tail(content))

\* re.findall(r'import\s+([\w\.]+);', content)
RECURSIVE RegexImports(_)
RegexImports(content) ==
  IF content = <<>> THEN <<>>
  ELSE IF Head(content).kind = "import"
    THEN <<Head(content).name>> \o RegexImports(Tail(content))
    ELSE RegexImports(Tail(content))

\* ParseWithFallback without lines 35-36: the import set stays the empty
\* set the parser returned
ParseWithFallback_no_imports(javalang_ok, content) ==
  LET r == parse(javalang_ok, content) IN
  IF r.pkg = None
    THEN LET matches == RegexPackages(content) IN
         [pkg |-> IF matches # <<>> THEN matches[1] ELSE <<>>,
          imports |-> r.imports]
    ELSE r

\* ParseWithFallback testing "if not pkg" where line 30 tests "pkg is None"
ParseWithFallback_if_not_pkg(javalang_ok, content) ==
  LET r == parse(javalang_ok, content) IN
  IF r.pkg = <<>>
    THEN LET matches == RegexPackages(content) IN
         [pkg |-> IF matches # <<>> THEN matches[1] ELSE <<>>,
          imports |-> Range(RegexImports(content))]
    ELSE r

\* graph.py 27-36: the parse of one file, with the regex fallback
ParseWithFallback(javalang_ok, content) ==
  LET r == parse(javalang_ok, content) IN
  IF r.pkg = None
    THEN LET matches == RegexPackages(content) IN
         [pkg |-> IF matches # <<>> THEN matches[1] ELSE <<>>,
          imports |-> Range(RegexImports(content))]
    ELSE r

\* graph.py 39: file_path.split("/")[-1].replace(".java", "")
ClassName(file_path) == Remove(LastSegment(file_path), DotJava)

\* graph.py 40: f"{pkg}.{class_name}" if pkg else class_name
FullName(pkg, class_name) ==
  IF pkg # <<>> THEN pkg \o <<".">> \o class_name ELSE class_name

(***************************************************************************)
(* networkx.DiGraph: the nodes in insertion order, and for each node its   *)
(* successors in the order their edges were first added.                   *)
(***************************************************************************)
EmptyGraph == [nodes |-> <<>>, adj |-> <<>>]

Nodes(G) == Range(G.nodes)

\* index of node n in G.nodes
IndexOf(G, n) == CHOOSE i \in 1..Len(G.nodes) : G.nodes[i] = n

Succ(G, n) == G.adj[IndexOf(G, n)]

Edges(G) == {<<u, v>> \in Nodes(G) \X Nodes(G) : v \in Range(Succ(G, u))}

\* G.add_node(n)
add_node(G, n) ==
  IF n \in Nodes(G) THEN G
  ELSE [nodes |-> Append(G.nodes, n), adj |-> Append(G.adj, <<>>)]

\* G.add_edge(u, v): both ends become nodes, a present edge keeps its place
add_edge(G, u, v) ==
  LET G2 == add_node(add_node(G, u), v)
      i == IndexOf(G2, u)
  IN IF v \in Range(G2.adj[i]) THEN G2
     ELSE [G2 EXCEPT !.adj[i] = Append(@, v)]

\* G.in_degree(v)
InDegree(G, v) == Cardinality({u \in Nodes(G) : v \in Range(Succ(G, u))})

\* nx.topological_generations, the inner loop over G.neighbors(node)
RECURSIVE VisitChildren(_, _, _)
VisitChildren(children, indeg, zero) ==
  IF children = <<>> THEN [indeg |-> indeg, zero |-> zero]
  ELSE LET child == Head(children)
           d == indeg[child] - 1
       IN VisitChildren(Tail(children), [indeg EXCEPT ![child] = d],
                        IF d = 0 THEN Append(zero, child) ELSE zero)

\* nx.topological_generations, the loop over this_generation
RECURSIVE VisitGeneration(_, _, _, _)
VisitGeneration(G, gen, indeg, zero) ==
  IF gen = <<>> THEN [indeg |-> indeg, zero |-> zero]
  ELSE LET r == VisitChildren(Succ(G, Head(gen)), indeg, zero)
       IN VisitGeneration(G, Tail(gen), r.indeg, r.zero)

\* nx.topological_generations, the while loop; left: the nodes still in
\* indegree_map when it ends (not empty: NetworkXUnfeasible)
RECURSIVE Generations(_, _, _, _)
Generations(G, zero_indegree, indeg, out) ==
  IF zero_indegree = <<>>
    THEN [order |-> out, left |-> {v \in Nodes(G) : indeg[v] > 0}]
    ELSE LET r == VisitGeneration(G, zero_indegree, indeg, <<>>)
         IN Generations(G, r.zero, r.indeg, out \o zero_indegree)

\* list(nx.topological_sort(G))
topological_sort(G) ==
  LET indeg == [v \in Nodes(G) |-> InDegree(G, v)]
      zero == SelectSeq(G.nodes, LAMBDA v : indeg[v] = 0)
  IN Generations(G, zero, indeg, <<>>)

\* get_topological_sort with the topological order returned as networkx
\* yields it, not reversed
get_topological_sort_unreversed(G) ==
  LET t == topological_sort(G) IN
  IF t.left = {} THEN t.order ELSE Sorted(G.nodes)

\* get_topological_sort with the fallback returning the nodes unsorted
get_topological_sort_unsorted(G) ==
  LET t == topological_sort(G) IN
  IF t.left = {} THEN Reversed(t.order) ELSE G.nodes

\* DependencyGraph.get_topological_sort
get_topological_sort(G) ==
  LET t == topological_sort(G) IN
  IF t.left = {} THEN Reversed(t.order) ELSE Sorted(G.nodes)

(***************************************************************************)
(* DependencyGraph.build_graph.  code_files is a dict: a sequence of       *)
(* [path, content] entries with distinct paths, in insertion order.        *)
(***************************************************************************)
\* DictPut that keeps the value a present key has (dict.setdefault)
DictPut_keep_first(d, k, v) ==
  [x \in DOMAIN d \cup {k} |-> IF x \in DOMAIN d THEN d[x] ELSE v]

\* d[k] = v on a dict whose order is never read
DictPut(d, k, v) == [x \in DOMAIN d \cup {k} |-> IF x = k THEN v ELSE d[x]]

\* graph.py 18-21 and self.graph as the call finds it
Pass1Start(G) ==
  [graph |-> G, class_to_file |-> <<>>, file_imports |-> <<>>, parsed |-> <<>>]

\* IndexFile leaving the node to add_edge: a file is a node only once an
\* edge touches it
IndexFile_no_node(st, javalang_ok, file_path, content) ==
  IF ~EndsWith(file_path, DotJava) THEN st
  ELSE LET r == ParseWithFallback(javalang_ok, content)
           full_name == FullName(r.pkg, ClassName(file_path))
       IN [graph |-> st.graph,
           class_to_file |-> DictPut(st.class_to_file, full_name, file_path),
           file_imports |-> Append(st.file_imports,
                                   [path |-> file_path, imports |-> r.imports]),
           parsed |-> Append(st.parsed,
                             [path |-> file_path,
                              returned |-> parse(javalang_ok, content),
                              pkg |-> r.pkg])]

\* graph.py 24-44: the body of the first loop for one entry; parsed keeps,
\* for the file, what self.parser.parse returned (line 27) and the pkg that
\* line 40 reads
IndexFile(st, javalang_ok, file_path, content) ==
  IF ~EndsWith(file_path, DotJava) THEN st
  ELSE LET r == ParseWithFallback(javalang_ok, content)
           full_name == FullName(r.pkg, ClassName(file_path))
       IN [graph |-> add_node(st.graph, file_path),
           class_to_file |-> DictPut(st.class_to_file, full_name, file_path),
           file_imports |-> Append(st.file_imports,
                                   [path |-> file_path, imports |-> r.imports]),
           parsed |-> Append(st.parsed,
                             [path |-> file_path,
                              returned |-> parse(javalang_ok, content),
                              pkg |-> r.pkg])]

\* graph.py 23-44: the first loop
RECURSIVE Pass1(_, _, _)
Pass1(st, javalang_ok, files) ==
  IF files = <<>> THEN st
  ELSE Pass1(IndexFile(st, javalang_ok, Head(files).path, Head(files).content),
             javalang_ok, Tail(files))

\* ResolveImport with the edge drawn from the target to the importing file
ResolveImport_backwards(G, class_to_file, file_path, imp) ==
  IF imp \in DOMAIN class_to_file
    THEN add_edge(G, class_to_file[imp], file_path)
    ELSE G

\* graph.py 50-53: one reference of one file
ResolveImport(G, class_to_file, file_path, imp) ==
  IF imp \in DOMAIN class_to_file
    THEN add_edge(G, file_path, class_to_file[imp])
    ELSE G

\* graph.py 48-53: the inner loop, imps the set in the order it is iterated
RECURSIVE AddEdges(_, _, _, _)
AddEdges(G, class_to_file, file_path, imps) ==
  IF imps = <<>> THEN G
  ELSE AddEdges(ResolveImport(G, class_to_file, file_path, Head(imps)),
                class_to_file, file_path, Tail(imps))

\* graph.py 47-53: the second loop; iter[i] is the order in which the
\* import set of the i-th recorded file is iterated
RECURSIVE Pass2(_, _, _, _)
Pass2(G, class_to_file, file_imports, iter) ==
  IF file_imports = <<>> THEN G
  ELSE Pass2(AddEdges(G, class_to_file, Head(file_imports).path, Head(iter)),
             class_to_file, Tail(file_imports), Tail(iter))

\* the orders in which a set can be iterated
RECURSIVE Perms(_)
Perms(S) ==
  IF S = {} THEN {<<>>}
  ELSE UNION {{<<x>> \o q : q \in Perms(S \ {x})} : x \in S}

\* one iteration order for the import set of every recorded file
RECURSIVE IterOrders(_)
IterOrders(file_imports) ==
  IF file_imports = <<>> THEN {<<>>}
  ELSE {<<q>> \o rest : q \in Perms(Head(file_imports).imports),
                        rest \in IterOrders(Tail(file_imports))}

\* DependencyGraph.build_graph on self.graph = G
build_graph(G, javalang_ok, files, iter) ==
  LET st == Pass1(Pass1Start(G), javalang_ok, files)
  IN [graph |-> Pass2(st.graph, st.class_to_file, st.file_imports, iter),
      class_to_file |-> st.class_to_file,
      file_imports |-> st.file_imports,
      parsed |-> st.parsed]

(***************************************************************************)
(* The inputs of the model: paths, names, texts.                           *)
(***************************************************************************)
Str_A == <<"A">>
Str_B == <<"B">>
Str_p == <<"p">>
Str_q == <<"q">>
Str_pA == <<"p", ".", "A">>
Str_List == <<"j", "a", "v", "a", ".", "u", "t", "i", "l", ".", "L", "i", "s", "t">>

Path_A == <<"A">> \o DotJava
Path_B == <<"B">> \o DotJava
Path_C == <<"C">> \o DotJava
Path_pA == <<"p", "/", "A">> \o DotJava
Path_xml == <<"R", ".", "x", "m", "l">>

File(path, content) == [path |-> path, content |-> content]

\* the [path, content] entries input mappings are made of
FilePool ==
  { File(Path_A, <<>>),
    File(Path_A, <<ImportLine(Str_B)>>),
    File(Path_A, <<PackageLine(Str_p)>>),
    File(Path_B, <<>>),
    File(Path_B, <<ImportLine(Str_A), ImportLine(Str_List)>>),
    File(Path_C, <<ImportLine(Str_A), ImportLine(Str_B)>>),
    File(Path_C, <<OtherLine, PackageLine(Str_q), ImportLine(Str_B),
                   PackageLine(Str_p), ImportLine(Str_pA)>>),
    File(Path_pA, <<PackageLine(Str_p), ImportLine(Str_pA), ImportLine(Str_A)>>),
    File(Path_xml, <<OtherLine>>) }

\* the dicts of at most n entries of pool
RECURSIVE Mappings(_, _)
Mappings(pool, n) ==
  IF n = 0 THEN {<<>>}
  ELSE LET M == Mappings(pool, n - 1)
       IN M \cup {Append(m, e) : m \in M, e \in pool}

Keys(files) == {files[i].path : i \in 1..Len(files)}

IsDict(files) == Cardinality(Keys(files)) = Len(files)

InputMappings == {m \in Mappings(FilePool, MaxFiles) : IsDict(m)}

(***************************************************************************)
(* CodebaseReader.  The directory walk is the sequence of the files        *)
(* os.walk would visit were nothing pruned, each with its path relative to *)
(* root_dir (root_dir itself holds no ignore pattern), its text, whether   *)
(* open/read succeeds, and len(content).                                   *)
(***************************************************************************)
\* reader.py 7-12
ignore_patterns ==
  { <<".", "g", "i", "t">>,
    <<".", "g", "r", "a", "d", "l", "e">>,
    <<"b", "u", "i", "l", "d">>,
    <<"g", "r", "a", "d", "l", "e">>,
    <<".", "i", "d", "e", "a">>,
    <<"l", "l", "m", "_", "a", "n", "a", "l", "y", "z", "e", "r">>,
    <<"_", "_", "p", "y", "c", "a", "c", "h", "e", "_", "_">>,
    <<"n", "o", "d", "e", "_", "m", "o", "d", "u", "l", "e", "s">>,
    <<".", "D", "S", "_", "S", "t", "o", "r", "e">>,
    <<"t", "a", "r", "g", "e", "t">>,
    <<".", "v", "s", "c", "o", "d", "e">>,
    <<".", "v", "e", "n", "v">>,
    <<".", "e", "n", "v">>,
    <<"a", "n", "a", "l", "y", "z", "e", "r">> }

\* reader.py 13
extensions ==
  { <<".", "j", "a", "v", "a">>,
    <<".", "x", "m", "l">>,
    <<".", "m", "d">>,
    <<".", "p", "r", "o", "p", "e", "r", "t", "i", "e", "s">> }

Str_Dockerfile == <<"D", "o", "c", "k", "e", "r", "f", "i", "l", "e">>

\* reader.py 42: the length from which a file is left out
SizeLimit == 100000

\* reader.py 15-19, applied by lines 29 and 32 to every directory on the way
\* and to the file name: no pattern holds a "/", so a pattern lies in one of
\* them exactly when it lies in the relative path
_should_ignore(path) == \E pattern \in ignore_patterns : Contains(path, pattern)

\* os.path.splitext(file)[1]: from the last dot of the name, leading dots
\* of the name aside
RECURSIVE SplitExt(_)
SplitExt(file) ==
  IF file = <<>> THEN <<>>
  ELSE IF Head(file) = "." THEN SplitExt(Tail(file))
  ELSE IF \E i \in 1..Len(file) : file[i] = "."
    THEN LET i == CHOOSE k \in 1..Len(file) :
                    /\ file[k] = "."
                    /\ \A m \in (k + 1)..Len(file) : file[m] # "."
         IN From(file, i)
    ELSE <<>>

\* reader.py 27-46: whether the walk collects the entry
Collected(e) ==
  /\ ~_should_ignore(e.path)
  /\ \/ SplitExt(LastSegment(e.path)) \in extensions
     \/ LastSegment(e.path) = Str_Dockerfile
  /\ e.readable
  /\ e.size < SizeLimit

\* reader.py 27-46: code_files after the walk
RECURSIVE Collect(_)
Collect(walk) ==
  IF walk = <<>> THEN <<>>
  ELSE IF Collected(Head(walk))
    THEN <<File(Head(walk).path, Head(walk).content)>> \o Collect(Tail(walk))
    ELSE Collect(Tail(walk))

Content(files, path) ==
  files[CHOOSE i \in 1..Len(files) : files[i].path = path].content

\* reader.py 58-60: the first loop of the merge
RECURSIVE AddSorted(_, _, _)
AddSorted(out, paths, files) ==
  IF paths = <<>> THEN out
  ELSE LET path == Head(paths) IN
       AddSorted(IF path \in Keys(files) /\ path \notin Keys(out)
                   THEN Append(out, File(path, Content(files, path)))
                   ELSE out,
                 Tail(paths), files)

\* reader.py 63-65: the second loop of the merge
RECURSIVE AddRemaining(_, _)
AddRemaining(out, files) ==
  IF files = <<>> THEN out
  ELSE AddRemaining(IF Head(files).path \notin Keys(out)
                      THEN Append(out, Head(files))
                      ELSE out,
                    Tail(files))

\* Merge without the second loop: only the paths the sort returned
Merge_sorted_only(paths, files) == AddSorted(<<>>, paths, files)

\* reader.py 55-67
Merge(paths, files) == AddRemaining(AddSorted(<<>>, paths, files), files)

Path_txt == <<"A", ".", "t", "x", "t">>
Path_buildA == <<"b", "u", "i", "l", "d", "/", "A">> \o DotJava

Entry(f, readable, size) ==
  [path |-> f.path, content |-> f.content, readable |-> readable, size |-> size]

\* the files a walk is made of
WalkPool ==
  {Entry(f, TRUE, 10) : f \in FilePool}
  \cup { Entry(File(Str_Dockerfile, <<OtherLine>>), TRUE, 10),
         Entry(File(Path_txt, <<OtherLine>>), TRUE, 10),
         Entry(File(Path_buildA, <<>>), TRUE, 10),
         Entry(File(Path_B, <<>>), TRUE, SizeLimit),
         Entry(File(Path_xml, <<OtherLine>>), FALSE, 10) }

Walks == {w \in Mappings(WalkPool, MaxFiles) : IsDict(w)}

(***************************************************************************)
(* State.                                                                  *)
(***************************************************************************)
VARIABLES
  javalang,       \* the javalang module was imported (parser.py 2-5)
  graph,          \* self.graph of the DependencyGraph
  builds,         \* build_graph calls made on it
  fed,            \* entries passed to it so far
  code_files,     \* the mapping of the most recent build_graph call
  class_to_file,  \* class_to_file of that call, at its end
  file_imports,   \* file_imports of that call, at its end
  parsed,         \* per indexed file of that call: the parser's return value
                  \* and the package the file was indexed under
  sorted_paths,   \* what the most recent get_topological_sort returned
  sorted_files,   \* what get_files returned
  pc,             \* "new" | "built" | "sorted" | "returned", and inside a
                  \* build_graph call "pass1" | "pass2"
  pos,            \* inside build_graph: the entries the running loop has taken
  pending,        \* inside build_graph: the imports of the current file the
                  \* inner loop has still to take, in its iteration order
  hash_file,      \* the text of the file ".codebase_hash", None: no such file
  pinecone,       \* the Pinecone index named pinecone_index_name
  run,            \* the index_codebase call of the current run of main
  prev,           \* the index_codebase call of the run before it
  runs,           \* runs of main so far
  rag_pc,         \* where index_codebase is: "idle" | "prepare" | "create" |
                  \* "upload" | "save" | "skipped" | "done" | "failed"
  llm_pc,         \* analyze_with_rag: "idle" | "loop" | "returned"
  attempt,        \* the loop variable of the synthesis loop
  invocations,    \* calls of self.llm.invoke so far
  waits,          \* the arguments of time.sleep so far, in order
  errors,         \* the str(e) of the exceptions caught so far, in order
  returned        \* the value analyze_with_rag returned

graphVars == <<javalang, graph, builds, fed, code_files, class_to_file,
               file_imports, parsed, sorted_paths, sorted_files, pc>>

stepVars == <<pos, pending>>

ragVars == <<hash_file, pinecone, run, prev, runs, rag_pc>>

llmVars == <<llm_pc, attempt, invocations, waits, errors, returned>>

vars == <<graphVars, stepVars, ragVars, llmVars>>

NoRun == [hash |-> None, force |-> FALSE, embeddings |-> "none",
          saved |-> None, skipped |-> FALSE, failed_at |-> "none",
          outcome |-> "none"]

\* before the first run of main: no hash file, no index
RagIdle ==
  /\ hash_file = None
  /\ pinecone = [exists |-> FALSE, dimension |-> 0, docs |-> {}]
  /\ run = NoRun
  /\ prev = NoRun
  /\ runs = 0
  /\ rag_pc = "idle"

\* what analyze_with_rag returned: nothing yet or None, the dict of the
\* parsed result, or a dict with the key "error"
Nothing == [kind |-> "None", value |-> <<>>]
ResultDict(result) == [kind |-> "result", value |-> result]
ErrorDict(text) == [kind |-> "error", value |-> text]

\* analyze_with_rag has not been called
LlmIdle ==
  /\ llm_pc = "idle"
  /\ attempt = 0
  /\ invocations = 0
  /\ waits = <<>>
  /\ errors = <<>>
  /\ returned = Nothing

\* no build_graph call is in progress
NotInBuild ==
  /\ pos = 0
  /\ pending = <<>>

\* DependencyGraph.__init__
Init ==
  /\ javalang \in BOOLEAN
  /\ graph = EmptyGraph
  /\ builds = 0
  /\ fed = 0
  /\ code_files = <<>>
  /\ class_to_file = <<>>
  /\ file_imports = <<>>
  /\ parsed = <<>>
  /\ sorted_paths = <<>>
  /\ sorted_files = <<>>
  /\ pc = "new"
  /\ NotInBuild
  /\ RagIdle
  /\ LlmIdle

\* a call of build_graph(files)
BuildGraph ==
  /\ pc \in {"new", "built", "sorted"}
  /\ builds < MaxBuilds
  /\ \E files \in InputMappings :
       /\ fed + Len(files) <= MaxFiles
       /\ LET st == Pass1(Pass1Start(graph), javalang, files) IN
          \E iter \in IterOrders(st.file_imports) :
            LET b == build_graph(graph, javalang, files, iter) IN
            /\ graph' = b.graph
            /\ class_to_file' = b.class_to_file
            /\ file_imports' = b.file_imports
            /\ parsed' = b.parsed
            /\ code_files' = files
            /\ fed' = fed + Len(files)
  /\ builds' = builds + 1
  /\ sorted_paths' = <<>>
  /\ pc' = "built"
  /\ UNCHANGED <<javalang, sorted_files>>
  /\ UNCHANGED <<stepVars, ragVars, llmVars>>

\* a call of get_topological_sort()
GetTopologicalSort ==
  /\ pc \in {"new", "built"}
  /\ sorted_paths' = get_topological_sort(graph)
  /\ pc' = "sorted"
  /\ UNCHANGED <<javalang, graph, builds, fed, code_files, class_to_file,
                 file_imports, parsed, sorted_files>>
  /\ UNCHANGED <<stepVars, ragVars, llmVars>>

\* CodebaseReader.get_files() when root_dir does not exist (reader.py 23-25)
GetFilesNoRoot ==
  /\ pc = "new"
  /\ sorted_files' = <<>>
  /\ pc' = "returned"
  /\ UNCHANGED <<javalang, graph, builds, fed, code_files, class_to_file,
                 file_imports, parsed, sorted_paths>>
  /\ UNCHANGED <<stepVars, ragVars, llmVars>>

\* CodebaseReader.get_files() over a walk; the DependencyGraph is the one
\* line 50 constructs
GetFiles ==
  /\ pc = "new"
  /\ \E walk \in Walks :
       LET files == Collect(walk)
           st == Pass1(Pass1Start(EmptyGraph), javalang, files)
       IN \E iter \in IterOrders(st.file_imports) :
            LET b == build_graph(EmptyGraph, javalang, files, iter)
                paths == get_topological_sort(b.graph)
            IN /\ graph' = b.graph
               /\ class_to_file' = b.class_to_file
               /\ file_imports' = b.file_imports
               /\ parsed' = b.parsed
               /\ code_files' = files
               /\ fed' = Len(files)
               /\ sorted_paths' = paths
               /\ sorted_files' = Merge(paths, files)
  /\ builds' = 1
  /\ pc' = "returned"
  /\ UNCHANGED javalang
  /\ UNCHANGED <<stepVars, ragVars, llmVars>>

Next == BuildGraph \/ GetTopologicalSort \/ GetFilesNoRoot \/ GetFiles

Spec == Init /\ [][Next]_vars

(***************************************************************************)
(* build_graph loop by loop: one call on a new DependencyGraph, one step   *)
(* per iteration of its two loops.                                         *)
(***************************************************************************)
Str_pB == <<"p", ".", "B">>
Path_AJJ == <<"A">> \o DotJava \o DotJava

\* the entries the mappings of the stepwise call are made of
StepPool ==
  FilePool \cup
  { File(Path_A, <<PackageLine(Str_p), ImportLine(Str_pB)>>),
    File(Path_B, <<PackageLine(Str_p)>>),
    File(Path_AJJ, <<>>) }

StepMappings == {m \in Mappings(StepPool, MaxFiles) : IsDict(m)}

\* the first loop with a second loop that starts once one entry is taken
Pass1Done_after_first(taken, files) == taken >= 1 \/ files = <<>>

\* graph.py 23, 46: the first loop has taken every entry of code_files, the
\* second loop starts
Pass1Done(taken, files) == taken >= Len(files)

\* DependencyGraph() and the entry into build_graph(code_files)
InitSteps ==
  /\ javalang \in BOOLEAN
  /\ graph = EmptyGraph
  /\ builds = 1
  /\ code_files \in StepMappings
  /\ fed = Len(code_files)
  /\ class_to_file = <<>>
  /\ file_imports = <<>>
  /\ parsed = <<>>
  /\ sorted_paths = <<>>
  /\ sorted_files = <<>>
  /\ pc = "pass1"
  /\ pos = 0
  /\ pending = <<>>
  /\ RagIdle
  /\ LlmIdle

\* graph.py 23-44: one iteration of the first loop
IndexStep ==
  /\ pc = "pass1"
  /\ ~Pass1Done(pos, code_files)
  /\ LET st == IndexFile([graph |-> graph, class_to_file |-> class_to_file,
                          file_imports |-> file_imports, parsed |-> parsed],
                         javalang, code_files[pos + 1].path,
                         code_files[pos + 1].content)
     IN /\ graph' = st.graph
        /\ class_to_file' = st.class_to_file
        /\ file_imports' = st.file_imports
        /\ parsed' = st.parsed
  /\ pos' = pos + 1
  /\ UNCHANGED <<javalang, builds, fed, code_files, sorted_paths, sorted_files,
                 pc, pending>>
  /\ UNCHANGED <<ragVars, llmVars>>

\* graph.py 23 -> 47: the first loop ends, the second begins
StartPass2 ==
  /\ pc = "pass1"
  /\ Pass1Done(pos, code_files)
  /\ pc' = "pass2"
  /\ pos' = 0
  /\ UNCHANGED <<javalang, graph, builds, fed, code_files, class_to_file,
                 file_imports, parsed, sorted_paths, sorted_files, pending>>
  /\ UNCHANGED <<ragVars, llmVars>>

\* graph.py 47-48: the second loop takes the next recorded file and starts
\* to iterate its import set, in some order
NextFileStep ==
  /\ pc = "pass2"
  /\ pending = <<>>
  /\ pos < Len(file_imports)
  /\ pos' = pos + 1
  /\ pending' \in Perms(file_imports[pos + 1].imports)
  /\ UNCHANGED <<graphVars, ragVars, llmVars>>

\* graph.py 48-53: one iteration of the inner loop
LookupStep ==
  /\ pc = "pass2"
  /\ pending # <<>>
  /\ graph' = ResolveImport(graph, class_to_file, file_imports[pos].path,
                            Head(pending))
  /\ pending' = Tail(pending)
  /\ UNCHANGED <<javalang, builds, fed, code_files, class_to_file,
                 file_imports, parsed, sorted_paths, sorted_files, pc, pos>>
  /\ UNCHANGED <<ragVars, llmVars>>

\* graph.py 47: the second loop ends, build_graph returns
ReturnStep ==
  /\ pc = "pass2"
  /\ pending = <<>>
  /\ pos >= Len(file_imports)
  /\ pc' = "built"
  /\ pos' = 0
  /\ UNCHANGED <<javalang, graph, builds, fed, code_files, class_to_file,
                 file_imports, parsed, sorted_paths, sorted_files, pending>>
  /\ UNCHANGED <<ragVars, llmVars>>

NextSteps ==
  \/ IndexStep
  \/ StartPass2
  \/ NextFileStep
  \/ LookupStep
  \/ ReturnStep
  \/ GetTopologicalSort

SpecSteps == InitSteps /\ [][NextSteps]_vars

(***************************************************************************)
(* RAGEngine.index_codebase, over successive runs of main.  The hash file  *)
(* and the Pinecone index outlive a run; everything else starts anew.      *)
(***************************************************************************)
\* hashlib.md5(data).hexdigest(): equal digests for equal data only
Md5(data) == <<"md5">> \o data

\* rag.py 55-58: the bytes fed to the hasher, paths in sorted order
RECURSIVE HashInput(_, _)
HashInput(paths, files) ==
  IF paths = <<>> THEN <<>>
  ELSE Head(paths) \o Content(files, Head(paths)) \o HashInput(Tail(paths), files)

\* RAGEngine.calculate_hash
calculate_hash(files) ==
  Md5(HashInput(Sorted([i \in 1..Len(files) |-> files[i].path]), files))

\* saved_hash.strip() for the text index_codebase itself wrote: a hexdigest
\* holds no white space
Strip(text) == text

\* rag.py 66-69: index_codebase returns without indexing
skip_indexing(force, file, current_hash) ==
  /\ ~force
  /\ file # None
  /\ Strip(file) = current_hash

\* rag.py 81
target_dimension(embeddings) == IF embeddings = "openai" THEN 1536 ELSE 768

\* the text of the hash file after a step of index_codebase: only the step
\* at rag.py 132-133, which follows the upload, writes it
HashFileAfter(step, file, current_hash) ==
  IF step = "save" THEN current_hash ELSE file

\* the codebases (path -> text) main passes to index_codebase
RagCodebases ==
  { <<File(Path_A, Str_p)>>,
    <<File(Path_A, Str_q)>>,
    <<File(Path_B, <<>>), File(Path_A, Str_p)>>,
    <<File(Path_A, Str_p), File(Path_B, <<>>)>> }

\* the chunks of a codebase in the index: all of them, or the ones a failed
\* upload got through
Chunks(hash, part) == [hash |-> hash, part |-> part]

\* main.py 33-37 and rag.py 61-76: a run of main reaches index_codebase,
\* which skips or goes on to index
StartRun ==
  /\ rag_pc \in {"idle", "skipped", "done", "failed"}
  /\ runs < MaxRuns
  /\ \E files \in RagCodebases, force \in BOOLEAN,
        embeddings \in {"google", "openai"} :
       LET current_hash == calculate_hash(files)
           skip == skip_indexing(force, hash_file, current_hash)
       IN /\ run' = [hash |-> current_hash, force |-> force,
                     embeddings |-> embeddings, saved |-> hash_file,
                     skipped |-> skip, failed_at |-> "none",
                     outcome |-> "none"]
          /\ rag_pc' = IF skip THEN "skipped" ELSE "prepare"
  /\ prev' = [run EXCEPT !.outcome = rag_pc]
  /\ runs' = runs + 1
  /\ UNCHANGED <<hash_file, pinecone>>
  /\ UNCHANGED <<graphVars, stepVars, llmVars>>

\* rag.py 78-94: an index of another dimension is deleted
PrepareIndex ==
  /\ rag_pc = "prepare"
  /\ pinecone' =
       IF pinecone.exists /\ pinecone.dimension # target_dimension(run.embeddings)
         THEN [exists |-> FALSE, dimension |-> 0, docs |-> {}]
         ELSE pinecone
  /\ hash_file' = HashFileAfter("prepare", hash_file, run.hash)
  /\ rag_pc' = "create"
  /\ UNCHANGED <<run, prev, runs>>
  /\ UNCHANGED <<graphVars, stepVars, llmVars>>

\* rag.py 96-109: the index is created when there is none
CreateIndex ==
  /\ rag_pc = "create"
  /\ pinecone' =
       IF ~pinecone.exists
         THEN [exists |-> TRUE, dimension |-> target_dimension(run.embeddings),
               docs |-> {}]
         ELSE pinecone
  /\ hash_file' = HashFileAfter("create", hash_file, run.hash)
  /\ rag_pc' = "upload"
  /\ UNCHANGED <<run, prev, runs>>
  /\ UNCHANGED <<graphVars, stepVars, llmVars>>

\* rag.py 111-129: the chunks are uploaded
Upload ==
  /\ rag_pc = "upload"
  /\ pinecone' = [pinecone EXCEPT !.docs = @ \cup {Chunks(run.hash, "all")}]
  /\ hash_file' = HashFileAfter("upload", hash_file, run.hash)
  /\ rag_pc' = "save"
  /\ UNCHANGED <<run, prev, runs>>
  /\ UNCHANGED <<graphVars, stepVars, llmVars>>

\* rag.py 131-135: the hash is saved
SaveHash ==
  /\ rag_pc = "save"
  /\ hash_file' = HashFileAfter("save", hash_file, run.hash)
  /\ rag_pc' = "done"
  /\ UNCHANGED <<pinecone, run, prev, runs>>
  /\ UNCHANGED <<graphVars, stepVars, llmVars>>

\* a call of the step at hand raises (network, quota, permissions): the run
\* ends; an upload may have got some chunks through before
Fail ==
  /\ rag_pc \in {"prepare", "create", "upload", "save"}
  /\ \/ UNCHANGED pinecone
     \/ /\ rag_pc = "upload"
        /\ pinecone' = [pinecone EXCEPT !.docs = @ \cup {Chunks(run.hash, "some")}]
  /\ rag_pc' = "failed"
  /\ run' = [run EXCEPT !.failed_at = rag_pc]
  /\ UNCHANGED <<hash_file, prev, runs>>
  /\ UNCHANGED <<graphVars, stepVars, llmVars>>

NextRag ==
  \/ StartRun
  \/ PrepareIndex
  \/ CreateIndex
  \/ Upload
  \/ SaveHash
  \/ Fail

InitRag ==
  /\ javalang \in BOOLEAN
  /\ graph = EmptyGraph
  /\ builds = 0
  /\ fed = 0
  /\ code_files = <<>>
  /\ class_to_file = <<>>
  /\ file_imports = <<>>
  /\ parsed = <<>>
  /\ sorted_paths = <<>>
  /\ sorted_files = <<>>
  /\ pc = "new"
  /\ NotInBuild
  /\ RagIdle
  /\ LlmIdle

SpecRag == InitRag /\ [][NextRag]_vars

(***************************************************************************)
(* LLMCodeAnalyzer.analyze_with_rag: the synthesis loop.                   *)
(***************************************************************************)
\* llm.py 78
max_retries == 3
\* llm.py 79
retry_delay == 5

Str_429 == <<"4", "2", "9">>
Str_RESOURCE_EXHAUSTED == <<"R", "E", "S", "O", "U", "R", "C", "E", "_", "E", "X", "H", "A", "U", "S", "T", "E", "D">>
Str_RateLimitExceeded == <<"R", "a", "t", "e", " ", "l", "i", "m", "i", "t", " ", "e", "x", "c", "e", "e", "d", "e", "d", ":", " ">>

\* the str(e) of the exceptions self.llm.invoke and self.parser.parse raise
ErrorStrings ==
  { Str_429,
    Str_RESOURCE_EXHAUSTED,
    <<"E", "r", "r", "o", "r", " ", "c", "o", "d", "e", ":", " ", "4", "2", "9", " ", "q", "u", "o", "t", "a">>,
    <<"s", "t", "a", "t", "u", "s", " ", "R", "E", "S", "O", "U", "R", "C", "E", "_", "E", "X", "H", "A", "U", "S", "T", "E", "D">>,
    <<"t", "i", "m", "e", "o", "u", "t">>,
    <<>> }

\* the dicts result.dict() yields
Results == {<<"r", "1">>, <<"r", "2">>}

\* llm.py 89
IsRateLimit(error_str) ==
  Contains(error_str, Str_RESOURCE_EXHAUSTED) \/ Contains(error_str, Str_429)

\* a loop that sleeps after its last attempt too
RetryAllowed_always(n) == n <= max_retries

\* llm.py 91
RetryAllowed(n) == n < max_retries

\* llm.py 92
Wait(n) == retry_delay * (2 ^ n)

\* llm.py 81: range(max_retries + 1) has a next value after n
InRange(n) == n < max_retries + 1

\* the call of analyze_with_rag reaches the loop
InitLlm ==
  /\ javalang \in BOOLEAN
  /\ graph = EmptyGraph
  /\ builds = 0
  /\ fed = 0
  /\ code_files = <<>>
  /\ class_to_file = <<>>
  /\ file_imports = <<>>
  /\ parsed = <<>>
  /\ sorted_paths = <<>>
  /\ sorted_files = <<>>
  /\ pc = "new"
  /\ NotInBuild
  /\ RagIdle
  /\ llm_pc = "loop"
  /\ attempt = 0
  /\ invocations = 0
  /\ waits = <<>>
  /\ errors = <<>>
  /\ returned = Nothing

\* llm.py 82-86: invoke and parse succeed
AttemptSucceeds ==
  /\ llm_pc = "loop"
  /\ \E result \in Results :
       returned' = ResultDict(result)
  /\ invocations' = invocations + 1
  /\ llm_pc' = "returned"
  /\ UNCHANGED <<attempt, waits, errors>>
  /\ UNCHANGED <<graphVars, stepVars, ragVars>>

\* llm.py 82-85, 87-97: invoke or parse raises a rate-limit error; the loop
\* sleeps and goes on, or returns; a loop that runs out of attempts returns
\* None
AttemptRateLimited ==
  /\ llm_pc = "loop"
  /\ \E error_str \in ErrorStrings :
       /\ IsRateLimit(error_str)
       /\ errors' = Append(errors, error_str)
       /\ IF RetryAllowed(attempt)
            THEN /\ waits' = Append(waits, Wait(attempt))
                 /\ IF InRange(attempt + 1)
                      THEN /\ attempt' = attempt + 1
                           /\ llm_pc' = "loop"
                      ELSE /\ attempt' = attempt
                           /\ llm_pc' = "returned"
                 /\ returned' = Nothing
            ELSE /\ returned' = ErrorDict(Str_RateLimitExceeded \o error_str)
                 /\ llm_pc' = "returned"
                 /\ UNCHANGED <<attempt, waits>>
  /\ invocations' = invocations + 1
  /\ UNCHANGED <<graphVars, stepVars, ragVars>>

\* llm.py 82-85, 87-89, 98-100: invoke or parse raises another error
AttemptFails ==
  /\ llm_pc = "loop"
  /\ \E error_str \in ErrorStrings :
       /\ ~IsRateLimit(error_str)
       /\ errors' = Append(errors, error_str)
       /\ returned' = ErrorDict(error_str)
  /\ invocations' = invocations + 1
  /\ llm_pc' = "returned"
  /\ UNCHANGED <<attempt, waits>>
  /\ UNCHANGED <<graphVars, stepVars, ragVars>>

NextLlm ==
  \/ AttemptSucceeds
  \/ AttemptRateLimited
  \/ AttemptFails

\* every call of invoke, parse and sleep comes back, so the loop goes on
SpecLlm == InitLlm /\ [][NextLlm]_vars /\ WF_vars(NextLlm)

(***************************************************************************)
(* Properties.                                                             *)
(***************************************************************************)
\* sorted_paths holds the return value of get_topological_sort on graph
Ordered == pc = "sorted" \/ (pc = "returned" /\ builds = 1)

\* graph was built by one build_graph call on a new DependencyGraph
BuiltOnce == builds = 1 /\ pc \in {"built", "sorted", "returned"}

\* the nodes reachable from the set S along edges
RECURSIVE Reach(_, _)
Reach(G, S) ==
  LET T == S \cup {v \in Nodes(G) : \E u \in S : <<u, v>> \in Edges(G)}
  IN IF T = S THEN S ELSE Reach(G, T)

HasCycle(G) == \E n \in Nodes(G) : n \in Reach(G, Range(Succ(G, n)))

\* the places of path in the sequence s
Places(s, path) == {i \in 1..Len(s) : s[i] = path}

\* the keys of a mapping that carry the source extension
JavaKeys(files) == {k \in Keys(files) : EndsWith(k, DotJava)}

\* C1: when the graph is acyclic, for every edge A->B (A references B) the
\* referenced file B stands strictly before A in the sequence
\* get_topological_sort returns.
C1_DependenciesFirst ==
  (Ordered /\ ~HasCycle(graph)) =>
    \A e \in Edges(graph) :
      \A i \in Places(sorted_paths, e[1]) :
        \E j \in Places(sorted_paths, e[2]) : j < i

\* C1 witness: a sort of an acyclic graph with a chain of two edges
C1_Witness ==
  /\ pc = "sorted"
  /\ ~HasCycle(graph)
  /\ \E a, b, c \in Nodes(graph) :
       /\ <<a, b>> \in Edges(graph)
       /\ <<b, c>> \in Edges(graph)
       /\ Places(sorted_paths, a) # {}

\* C2: when the graph has a cycle, a self-loop included, get_topological_sort
\* returns every node exactly once in ascending lexicographic order, whatever
\* the order the nodes and edges were inserted in.
C2_CycleFallbackSorted ==
  (Ordered /\ HasCycle(graph)) =>
    /\ Len(sorted_paths) = Cardinality(Nodes(graph))
    /\ Range(sorted_paths) = Nodes(graph)
    /\ \A i, j \in 1..Len(sorted_paths) :
         i < j => StrLess(sorted_paths[i], sorted_paths[j])

\* C2 witness: a sort of a graph whose only cycle is a self-loop and whose
\* nodes were not inserted in ascending order
C2_Witness ==
  /\ pc = "sorted"
  /\ \E n \in Nodes(graph) : <<n, n>> \in Edges(graph)
  /\ \A a, b \in Nodes(graph) :
       (a # b /\ <<a, b>> \in Edges(graph)) => a \notin Reach(graph, {b})
  /\ \E i, j \in 1..Len(graph.nodes) :
       i < j /\ StrLess(graph.nodes[j], graph.nodes[i])

\* C3: after one build_graph(files) on a new graph, get_topological_sort
\* returns every '.java' key of files exactly once and nothing else.
C3_CoversJavaKeys ==
  (Ordered /\ BuiltOnce) =>
    /\ \A k \in JavaKeys(code_files) : Cardinality(Places(sorted_paths, k)) = 1
    /\ Range(sorted_paths) \subseteq JavaKeys(code_files)

\* C3 witness: a sort after one build of a mapping with an isolated '.java'
\* file, a '.java' file with an edge and a file that is no '.java' file
C3_Witness ==
  /\ pc = "sorted"
  /\ builds = 1
  /\ Keys(code_files) # JavaKeys(code_files)
  /\ Edges(graph) # {}
  /\ \E k \in JavaKeys(code_files) :
       /\ \A e \in Edges(graph) : e[1] # k /\ e[2] # k
       /\ Places(sorted_paths, k) # {}

\* what one build_graph(code_files) on a new DependencyGraph leaves when the
\* import sets are iterated in the orders iter
FreshBuild(iter) == build_graph(EmptyGraph, javalang, code_files, iter)

\* C4: the sequence returned after one build_graph on a new graph is the same
\* for every order in which the files' import sets can be iterated.
C4_OrderIndependentOfSetIteration ==
  (Ordered /\ BuiltOnce) =>
    \A iter \in IterOrders(file_imports) :
      get_topological_sort(FreshBuild(iter).graph) = sorted_paths

\* the import set recorded for path in the most recent build_graph call
ImportsOf(path) ==
  file_imports[CHOOSE i \in 1..Len(file_imports) : file_imports[i].path = path].imports

IndexedFiles == {file_imports[i].path : i \in 1..Len(file_imports)}

\* C5: after one build_graph(files) on a new graph, f->t is an edge exactly
\* when f is an indexed file and some reference of f is a key of
\* class_to_file mapped to t; both ends of an edge are nodes inserted for
\* '.java' input files.
C5_EdgesAreResolvedReferences ==
  BuiltOnce =>
    /\ Edges(graph) =
         {e \in IndexedFiles \X Nodes(graph) :
            \E r \in ImportsOf(e[1]) :
              r \in DOMAIN class_to_file /\ class_to_file[r] = e[2]}
    /\ \A e \in Edges(graph) :
         e[1] \in JavaKeys(code_files) /\ e[2] \in JavaKeys(code_files)
    /\ Nodes(graph) = JavaKeys(code_files)

\* C5 witness: a file with one reference that resolves and one
\* (java.util.List) that is no key of class_to_file
C5_Witness ==
  /\ pc = "built"
  /\ builds = 1
  /\ \E f \in IndexedFiles :
       /\ Str_List \in ImportsOf(f)
       /\ Str_List \notin DOMAIN class_to_file
       /\ \E r \in ImportsOf(f) : r \in DOMAIN class_to_file
       /\ \E t \in Nodes(graph) : <<f, t>> \in Edges(graph)

\* the i-th entry of code_files is indexed, under name
IndexedAs(i, name) ==
  /\ EndsWith(code_files[i].path, DotJava)
  /\ \E k \in 1..Len(parsed) :
       /\ parsed[k].path = code_files[i].path
       /\ name = FullName(parsed[k].pkg, ClassName(code_files[i].path))

\* C6: when two files of one build_graph call yield the same fully-qualified
\* name, class_to_file maps the name to the file processed last; every
\* reference to the name is an edge to that file, no edge leads to the
\* earlier file, and the earlier file is still a node.
C6_LastWriteWins ==
  BuiltOnce =>
    \A i, j \in 1..Len(code_files) : \A name \in DOMAIN class_to_file :
      (/\ i < j
       /\ IndexedAs(i, name)
       /\ IndexedAs(j, name)
       /\ \A k \in (j + 1)..Len(code_files) : ~IndexedAs(k, name))
      => /\ class_to_file[name] = code_files[j].path
         /\ \A f \in IndexedFiles :
              /\ name \in ImportsOf(f) => <<f, code_files[j].path>> \in Edges(graph)
              /\ <<f, code_files[i].path>> \notin Edges(graph)
         /\ code_files[i].path \in Nodes(graph)

\* C6 witness: two files indexed under one name and a reference to it
C6_Witness ==
  /\ pc = "built"
  /\ builds = 1
  /\ \E i, j \in 1..Len(code_files) : \E name \in DOMAIN class_to_file :
       /\ i < j
       /\ IndexedAs(i, name)
       /\ IndexedAs(j, name)
       /\ \E f \in IndexedFiles :
            /\ name \in ImportsOf(f)
            /\ <<f, code_files[j].path>> \in Edges(graph)

\* the grammar-aware parse of a text fails, or there is no grammar engine
ParseFails(content) ==
  \/ ~javalang
  \/ \E i \in 1..Len(content) :
       \/ content[i].kind = "other"
       \/ content[i].kind = "package" /\ i > 1

\* the name of the first package statement of a text, else ""
FirstPackage(content) ==
  LET at == {i \in 1..Len(content) : content[i].kind = "package"} IN
  IF at = {} THEN <<>>
  ELSE content[CHOOSE i \in at : \A k \in at : i <= k].name

\* the names of all import statements of a text
AllImports(content) ==
  {content[i].name : i \in {k \in 1..Len(content) : content[k].kind = "import"}}

\* C7: every '.java' file whose grammar-aware parse fails (or with no
\* grammar engine) is a node, is indexed under the name built from its first
\* 'package' statement (none: the bare class name), and has the names of
\* all its 'import' statements as the references its edges are made from.
C7_FallbackExtraction ==
  BuiltOnce =>
    \A i \in 1..Len(code_files) :
      (EndsWith(code_files[i].path, DotJava) /\ ParseFails(code_files[i].content))
      => LET path == code_files[i].path
             text == code_files[i].content
             name == FullName(FirstPackage(text), ClassName(path))
         IN /\ path \in Nodes(graph)
            /\ name \in DOMAIN class_to_file
            /\ \/ class_to_file[name] = path
               \/ \E k \in (i + 1)..Len(code_files) : IndexedAs(k, name)
            /\ ImportsOf(path) = AllImports(text)
            /\ \A r \in AllImports(text) :
                 r \in DOMAIN class_to_file
                   => <<path, class_to_file[r]>> \in Edges(graph)

\* C7 witness: with javalang present, a file that does not parse, has two
\* package statements and an import that becomes an edge
C7_Witness ==
  /\ pc = "built"
  /\ builds = 1
  /\ javalang
  /\ \E i \in 1..Len(code_files) :
       /\ EndsWith(code_files[i].path, DotJava)
       /\ ParseFails(code_files[i].content)
       /\ Len(RegexPackages(code_files[i].content)) > 1
       /\ \E t \in Nodes(graph) : <<code_files[i].path, t>> \in Edges(graph)

\* the text of the indexed file path in the most recent mapping
TextOf(path) == Content(code_files, path)

\* C8 as stated: for every text, JavaParser.parse returns a namespace that
\* is a string, never the None sentinel.
C8_ParseNeverReturnsSentinel ==
  BuiltOnce => \A k \in 1..Len(parsed) : parsed[k].returned.pkg # None

\* C8 as amended: JavaParser.parse returns the sentinel (None, empty set)
\* exactly for a text whose grammar-aware parse fails or when there is no
\* grammar engine; build_graph, its caller, applies the fallback, so the
\* namespace every '.java' file is indexed under is a string, never the
\* sentinel.
C8_FallbackInCaller ==
  BuiltOnce =>
    \A k \in 1..Len(parsed) :
      /\ parsed[k].returned.pkg = None <=> ParseFails(TextOf(parsed[k].path))
      /\ parsed[k].returned.pkg = None => parsed[k].returned.imports = {}
      /\ parsed[k].pkg # None
      /\ parsed[k].returned.pkg # None => parsed[k].pkg = parsed[k].returned.pkg

\* C8 witness: javalang is present, one file parses and another does not,
\* and the one that does not is indexed under its pattern-extracted package
C8_Witness ==
  /\ pc = "built"
  /\ builds = 1
  /\ javalang
  /\ \E k, m \in 1..Len(parsed) :
       /\ parsed[k].returned.pkg = None
       /\ parsed[k].pkg # <<>>
       /\ parsed[m].returned.pkg # None

\* C9: after any sequence of build_graph calls the nodes and edges of the
\* graph are those of the most recent mapping alone, and
\* get_topological_sort leaves the graph unchanged.
C9_GraphOfLastMappingOnly ==
  (pc \in {"built", "sorted"}) =>
    \E iter \in IterOrders(file_imports) :
      /\ Nodes(graph) = Nodes(FreshBuild(iter).graph)
      /\ Edges(graph) = Edges(FreshBuild(iter).graph)

\* C10: get_files returns every collected file exactly once with its text:
\* first the paths get_topological_sort returned, in that order, then every
\* other collected path.
C10_MergeCoversCollected ==
  pc = "returned" =>
    /\ Len(sorted_files) = Len(code_files)
    /\ Range(sorted_files) = Range(code_files)
    /\ \A i \in 1..Len(sorted_paths) : sorted_files[i].path = sorted_paths[i]
    /\ \A i \in (Len(sorted_paths) + 1)..Len(sorted_files) :
         sorted_files[i].path \notin Range(sorted_paths)

\* C10 witness: a walk whose first collected file is no '.java' file,
\* followed by two '.java' files joined by an edge, and a file left out
C10_Witness ==
  /\ pc = "returned"
  /\ Len(code_files) = 3
  /\ ~EndsWith(code_files[1].path, DotJava)
  /\ Edges(graph) # {}
  /\ Len(sorted_paths) = 2
  /\ sorted_paths[1] # code_files[2].path
  /\ sorted_files[3] = code_files[1]

\* the i-th entry of code_files has been indexed under its name
Indexed(i) ==
  \E k \in 1..Len(parsed) :
    /\ parsed[k].path = code_files[i].path
    /\ code_files[i].path \in IndexedFiles
    /\ FullName(parsed[k].pkg, ClassName(code_files[i].path))
         \in DOMAIN class_to_file

\* the place of path in the sequence s
Place(s, path) == CHOOSE i \in 1..Len(s) : s[i] = path

\* C11: while the edge loop of build_graph runs, every '.java' entry of the
\* mapping is already in class_to_file; so, whichever of two files is
\* processed first, a file that imports the name class_to_file maps to the
\* other has an edge to it, and in an acyclic graph the other file stands
\* before it in the sorted output.
C11_IndexCompleteBeforeLookups ==
  /\ pc = "pass2" =>
       \A i \in 1..Len(code_files) :
         EndsWith(code_files[i].path, DotJava) => Indexed(i)
  /\ pc \in {"built", "sorted"} =>
       \A i, j \in 1..Len(code_files) : \A name \in DOMAIN class_to_file :
         (/\ IndexedAs(i, name)
          /\ IndexedAs(j, name)
          /\ class_to_file[name] = code_files[j].path)
         => \A f \in IndexedFiles :
              name \in ImportsOf(f) =>
                /\ <<f, code_files[j].path>> \in Edges(graph)
                /\ (pc = "sorted" /\ ~HasCycle(graph)) =>
                     Place(sorted_paths, code_files[j].path)
                       < Place(sorted_paths, f)

\* C11 witness: A.java (package p, import p.B) is processed before B.java
\* (package p); the edge A->B exists and B stands before A in the output
C11_Witness ==
  /\ pc = "sorted"
  /\ Len(code_files) >= 2
  /\ code_files[1] = File(Path_A, <<PackageLine(Str_p), ImportLine(Str_pB)>>)
  /\ code_files[2] = File(Path_B, <<PackageLine(Str_p)>>)
  /\ <<Path_A, Path_B>> \in Edges(graph)
  /\ Place(sorted_paths, Path_B) < Place(sorted_paths, Path_A)

\* a base name that ends with ".java", without that ending
StripExtension(base) == SubSeq(base, 1, Len(base) - Len(DotJava))

\* C12: every indexed file is a key of class_to_file under namespace "."
\* type name (the type name alone for an empty namespace), the type name
\* being the base name of its path without the trailing ".java" and with
\* every other character kept.
C12_TypeNameIsBaseNameSansExtension ==
  pc \in {"built", "sorted"} =>
    \A k \in 1..Len(parsed) :
      FullName(parsed[k].pkg, StripExtension(LastSegment(parsed[k].path)))
        \in DOMAIN class_to_file

\* index_codebase has decided whether to skip
Decided == rag_pc # "idle"

\* C13 as stated: index_codebase skips exactly when force is false and the
\* hash file exists and holds the current hash; a run that fails before its
\* upload has finished leaves the hash file as it was, and the next run on
\* the same codebase indexes again.
C13_NextRunAfterFailureIndexes ==
  /\ Decided =>
       (run.skipped <=>
          (~run.force /\ run.saved # None /\ Strip(run.saved) = run.hash))
  /\ rag_pc = "failed" => hash_file = run.saved
  /\ (/\ Decided
      /\ prev.failed_at \in {"prepare", "create", "upload"}
      /\ prev.hash = run.hash) => ~run.skipped

\* C14: the synthesis loop ends with a returned dict after at most
\* max_retries + 1 invocations: a success returns the parsed result, an error
\* that is no rate-limit error returns an error dict at once, a rate-limit
\* error is retried after retry_delay * 2^attempt seconds until the attempt
\* numbered max_retries + 1, which returns 'Rate limit exceeded'; the loop
\* never returns None.
C14_LoopEndsWithDict ==
  /\ [](/\ invocations <= 4
        /\ Len(waits) <= 3
        /\ \A i \in 1..Len(waits) :
             /\ waits[i] = 5 * (2 ^ (i - 1))
             /\ IsRateLimit(errors[i])
        /\ llm_pc = "loop" =>
             /\ attempt = invocations
             /\ Len(waits) = invocations
             /\ Len(errors) = invocations
        /\ llm_pc = "returned" =>
             /\ Len(waits) = invocations - 1
             /\ \/ /\ returned.kind = "result"
                   /\ Len(errors) = invocations - 1
                \/ /\ returned.kind = "error"
                   /\ Len(errors) = invocations
                   /\ ~IsRateLimit(errors[invocations])
                   /\ returned.value = errors[invocations]
                \/ /\ returned.kind = "error"
                   /\ Len(errors) = invocations
                   /\ IsRateLimit(errors[invocations])
                   /\ invocations = 4
                   /\ returned.value = Str_RateLimitExceeded \o errors[invocations])
  /\ <>(llm_pc = "returned")

\* C14 witness: three rate-limit errors were waited out (5, 10 and 20
\* seconds) and the fourth attempt returned 'Rate limit exceeded'
C14_Witness ==
  /\ llm_pc = "returned"
  /\ invocations = 4
  /\ waits = <<5, 10, 20>>
  /\ returned.kind = "error"
  /\ StartsWith(returned.value, Str_RateLimitExceeded)

====
